---------------------------- MODULE Spec2Model ----------------------------
(***************************************************************************)
(* Model of the invoice-extractor: the Flores Prisma parser                *)
(* (scripts/flores_prisma/parser.py), the consolidation engine             *)
(* (scripts/calc_finais.py) and the processing / recompute handlers of     *)
(* the application (app.py).                                               *)
(*                                                                         *)
(* Decimal numbers are fixed-point integers in units of 1/10000 (Scale):   *)
(* 2.5 is 25000, 0.125 is 1250.  Arithmetic on them is exact; the binary   *)
(* representation error of Python floats is not modelled.  round() and     *)
(* Series.round() round half to even, as numpy's and Python's do on a      *)
(* value that is exactly halfway.                                          *)
(*                                                                         *)
(* Python strings that the code inspects character by character are        *)
(* sequences of one-character strings: "R$ 1,50" is                        *)
(* <<"R","$"," ","1",",","5","0">>.                                        *)
(***************************************************************************)
EXTENDS Integers, Sequences, FiniteSets, TLC

VARIABLES
    \* ---- finalize_table called as a function --------------------------
    items,          \* argument items: sequence of normalized line items
    cotacao,        \* argument cotacao (fixed point)
    produtos,       \* argument produtos: the catalog, a sequence of names
    ops_costs_map,  \* argument ops_costs_map: NoMap or SomeMap(m)
    out,            \* the table finalize_table returned last
    prev_out,       \* the table it returned on the call before
    fphase,         \* "off" | "args" | "called" | "rate"
    \* ---- FloresPrismaJSON: construction and parse ----------------------
    depara_file,    \* the content of depara.json (see DeparaFiles)
    self_default,   \* self._default
    depara_map,     \* self.depara_map: match key -> canonical product
    document,       \* the invoice document handed to parse
    parsed,         \* the list parse returned
    pphase,         \* "off" | "new" | "constructed" | "parsed" | "raised"
    \* ---- the application (app.py) --------------------------------------
    any_is_type,    \* whether typing.Any is a class in the running Python
    last_items,     \* gr.State last_items
    out_table,      \* the value of the Dataframe out_table (display strings)
    logs,           \* the log lines of the last processing run
    proc_files,     \* the (file, fornecedor) pairs of the last processing run
    run_items,      \* the item set the last processing run returned
    run_calls,      \* parse_calls when the last processing run returned
    parse_calls,    \* how many times a parser's parse has been invoked
    escaped,        \* whether an exception left processar_arquivos
    seen_df,        \* current_df of the last on_table_change
    runs,           \* processing runs so far
    edits,          \* recomputes so far
    aphase          \* "off" | "idle" | "processed" | "recomputed"

fvars == <<items, cotacao, produtos, ops_costs_map, out, prev_out, fphase>>

pvars == <<depara_file, self_default, depara_map, document, parsed, pphase>>

avars == <<any_is_type, last_items, out_table, logs, proc_files, run_items,
           run_calls, parse_calls, escaped, seen_df, runs, edits, aphase>>

vars == <<fvars, pvars, avars>>

---------------------------------------------------------------------------
(* Values *)

\* Python None where a product name (a string) is expected.
None == "#None"

\* Fixed-point unit: 1.0
Scale == 10000

\* Product names the model ranges over, in Python's string order
\* ("Coloridas" < "Freedom 50" < "Freedom 60").
SortedNames == <<"Coloridas", "Freedom 50", "Freedom 60">>

Names == {SortedNames[i] : i \in 1..Len(SortedNames)}

\* Position of a group key in the order pandas' groupby(sort=True,
\* dropna=False) emits the groups: values ascending, the null key last.
KeyRank(p) ==
    IF p = None THEN Len(SortedNames) + 1
    ELSE CHOOSE i \in 1..Len(SortedNames) : SortedNames[i] = p

\* Optional[Dict[str, float]]
NoMap == <<>>

SomeMap(m) == <<m>>

---------------------------------------------------------------------------
(* Sequence helpers *)

Range(s) == {s[i] : i \in 1..Len(s)}

\* the sequences over S of length at most n
SeqsUpTo(S, n) == UNION {[1..k -> S] : k \in 0..n}

IsInjective(s) == \A i, j \in 1..Len(s) : s[i] = s[j] => i = j

RECURSIVE SumOver(_, _, _)
\* sum of field(s[i]) over the elements whose product is p
SumOver(s, p, field) ==
    IF s = <<>> THEN 0
    ELSE (IF Head(s).product = p THEN Head(s)[field] ELSE 0)
         + SumOver(Tail(s), p, field)

RECURSIVE SeqFilter(_, _)
\* [x for x in s if x not in have]
SeqFilter(s, have) ==
    IF s = <<>> THEN <<>>
    ELSE IF Head(s) \in have THEN SeqFilter(Tail(s), have)
         ELSE <<Head(s)>> \o SeqFilter(Tail(s), have)

\* Nearest integer to n / d (d > 0), a value exactly halfway going to the
\* even neighbour.
RoundHalfEven(n, d) ==
    LET q == n \div d
        r == n % d
    IN  IF 2 * r < d THEN q
        ELSE IF 2 * r > d THEN q + 1
        ELSE IF q % 2 = 0 THEN q ELSE q + 1

\* x.round(2) on a fixed-point value: a multiple of 0.01
Round2(x) == RoundHalfEven(x, Scale \div 100) * (Scale \div 100)

---------------------------------------------------------------------------
(* scripts/calc_finais.py *)

\* GroupBy taking the first stems of a group where the code sums them
GroupBy_FirstStems(its) ==
    LET keys == {its[i].product : i \in 1..Len(its)}
        n    == Cardinality(keys)
        nth(k) == CHOOSE p \in keys :
                     Cardinality({q \in keys : KeyRank(q) < KeyRank(p)}) = k - 1
        first(p) == CHOOSE i \in 1..Len(its) :
                       /\ its[i].product = p
                       /\ \A j \in 1..Len(its) : its[j].product = p => i <= j
    IN  [k \in 1..n |->
            [Produto      |-> nth(k),
             total_stems  |-> its[first(nth(k))].stems,
             subtotal_usd |-> SumOver(its, nth(k), "value_usd")]]

\* df_items.groupby("product", dropna=False).agg(sum, sum).reset_index():
\* one row per distinct product, in sorted key order.
GroupBy(its) ==
    LET keys == {its[i].product : i \in 1..Len(its)}
        n    == Cardinality(keys)
        nth(k) == CHOOSE p \in keys :
                     Cardinality({q \in keys : KeyRank(q) < KeyRank(p)}) = k - 1
    IN  [k \in 1..n |->
            [Produto      |-> nth(k),
             total_stems  |-> SumOver(its, nth(k), "stems"),
             subtotal_usd |-> SumOver(its, nth(k), "value_usd")]]

\* MissingRows adding the catalog only to an empty grouping
MissingRows_OnlyWhenEmpty(g, prods) ==
    IF g # <<>> THEN <<>>
    ELSE [k \in 1..Len(prods) |->
            [Produto |-> prods[k], total_stems |-> 0, subtotal_usd |-> 0]]

\* missing = [p for p in produtos if p not in have]; the rows added for them
MissingRows(g, prods) ==
    LET have    == {g[i].Produto : i \in 1..Len(g)}
        missing == SeqFilter(prods, have)
    IN  [k \in 1..Len(missing) |->
            [Produto |-> missing[k], total_stems |-> 0, subtotal_usd |-> 0]]

\* the sentinel of fillna(1_000_000)
OrdSentinel == 1000000

\* order = {p: i for i, p in enumerate(produtos)}; .map(order).fillna(...)
OrdKey(p, prods) ==
    IF \E i \in 1..Len(prods) : prods[i] = p
    THEN (CHOOSE i \in 1..Len(prods) :
             /\ prods[i] = p
             /\ \A j \in 1..Len(prods) : prods[j] = p => j <= i) - 1
    ELSE OrdSentinel

RECURSIVE InsertByOrd(_, _, _)
InsertByOrd(row, sorted, prods) ==
    IF sorted = <<>> THEN <<row>>
    ELSE IF OrdKey(Head(sorted).Produto, prods) <= OrdKey(row.Produto, prods)
         THEN <<Head(sorted)>> \o InsertByOrd(row, Tail(sorted), prods)
         ELSE <<row>> \o sorted

\* SortByOrd leaving the rows in grouping order
SortByOrd_Unsorted(g, prods) == g

RECURSIVE SortByOrd(_, _)
\* g.sort_values("__ord"): rows of equal key keep their order, as numpy's
\* sort does on the short arrays modelled here.
SortByOrd(g, prods) ==
    IF g = <<>> THEN <<>>
    ELSE InsertByOrd(g[Len(g)], SortByOrd(SubSeq(g, 1, Len(g) - 1), prods), prods)

\* float(ops.get(prod, 0.0) or 0.0) with ops = ops_costs_map or {}
OpsCost(opsmap, prod) ==
    IF opsmap = NoMap THEN 0
    ELSE IF prod \in DOMAIN opsmap[1] THEN opsmap[1][prod] ELSE 0

\* TotalPerStem without the zero-stems guard giving 0.0
TotalPerStem_NoZero(preco, opsc, stems) ==
    IF stems > 0 THEN RoundHalfEven(preco + opsc, stems) ELSE preco + opsc

\* round((preco + opsc) / stems, 4) if stems and stems > 0 else 0.0
TotalPerStem(preco, opsc, stems) ==
    IF stems > 0 THEN RoundHalfEven(preco + opsc, stems) ELSE 0

\* FinalRow writing the converted amount into the subtotal column too
FinalRow_SubtotalConverted(grow, cot, opsmap) ==
    LET subtotal == Round2(grow.subtotal_usd)
        preco    == RoundHalfEven(subtotal * cot, Scale * (Scale \div 100))
                    * (Scale \div 100)
        opsc     == OpsCost(opsmap, grow.Produto)
    IN  [Produto  |-> grow.Produto,
         Hastes   |-> grow.total_stems,
         Subtotal |-> preco,
         Cotacao  |-> cot,
         Preco    |-> preco,
         Custos   |-> opsc,
         Total    |-> TotalPerStem(preco, opsc, grow.total_stems)]

\* One row of the returned table, in the order of COLUMNS.
FinalRow(grow, cot, opsmap) ==
    LET subtotal == Round2(grow.subtotal_usd)
        preco    == RoundHalfEven(subtotal * cot, Scale * (Scale \div 100))
                    * (Scale \div 100)
        opsc     == OpsCost(opsmap, grow.Produto)
    IN  [Produto  |-> grow.Produto,
         Hastes   |-> grow.total_stems,
         Subtotal |-> subtotal,
         Cotacao  |-> cot,
         Preco    |-> preco,
         Custos   |-> opsc,
         Total    |-> TotalPerStem(preco, opsc, grow.total_stems)]

finalize_table(its, cot, prods, opsmap) ==
    LET g0 == IF its # <<>> THEN GroupBy(its) ELSE <<>>
        g1 == g0 \o MissingRows(g0, prods)
        g  == SortByOrd(g1, prods)
    IN  [k \in 1..Len(g) |-> FinalRow(g[k], cot, opsmap)]

---------------------------------------------------------------------------
(* Python strings and numbers *)

Digits == <<"0", "1", "2", "3", "4", "5", "6", "7", "8", "9">>

IsDigit(c) == \E d \in 1..10 : Digits[d] = c

DigitVal(c) == (CHOOSE d \in 1..10 : Digits[d] = c) - 1

\* 10^n
RECURSIVE Pow10(_)
Pow10(n) == IF n = 0 THEN 1 ELSE 10 * Pow10(n - 1)

\* the number of decimal digits a fixed-point value carries (Scale = 10^4)
FracDigits == 4

RECURSIVE LStrip(_)
LStrip(s) == IF s # <<>> /\ Head(s) = " " THEN LStrip(Tail(s)) ELSE s

RECURSIVE RStrip(_)
RStrip(s) ==
    IF s # <<>> /\ s[Len(s)] = " " THEN RStrip(SubSeq(s, 1, Len(s) - 1)) ELSE s

\* str.strip()
Strip(s) == RStrip(LStrip(s))

RECURSIVE Replace(_, _, _)
\* s.replace(pat, rep), pat not empty
Replace(s, pat, rep) ==
    IF Len(s) < Len(pat) THEN s
    ELSE IF SubSeq(s, 1, Len(pat)) = pat
         THEN rep \o Replace(SubSeq(s, Len(pat) + 1, Len(s)), pat, rep)
         ELSE <<Head(s)>> \o Replace(Tail(s), pat, rep)

RECURSIVE DigitsValue(_)
\* the number a string of digits spells
DigitsValue(s) ==
    IF s = <<>> THEN 0
    ELSE 10 * DigitsValue(SubSeq(s, 1, Len(s) - 1)) + DigitVal(s[Len(s)])

AllDigits(s) == \A i \in 1..Len(s) : IsDigit(s[i])

\* a sign in front of a number
Unsigned(s) == IF s # <<>> /\ Head(s) \in {"-", "+"} THEN Tail(s) ELSE s

Sign(s) == IF s # <<>> /\ Head(s) = "-" THEN -1 ELSE 1

\* int(s): [ok, val]; surrounding blanks and a sign are accepted, then
\* digits only.
PyInt(s) ==
    LET t == Unsigned(Strip(s))
    IN  IF t # <<>> /\ AllDigits(t)
        THEN [ok |-> TRUE, val |-> Sign(Strip(s)) * DigitsValue(t)]
        ELSE [ok |-> FALSE, val |-> 0]

\* float(s): [ok, val] with val in fixed point: digits, at most one ".",
\* at least one digit.  Digits after the fourth decimal are dropped (no
\* modelled input has any).
PyFloat(s) ==
    LET t    == Unsigned(Strip(s))
        dots == {i \in 1..Len(t) : t[i] = "."}
        dot  == IF dots = {} THEN Len(t) + 1 ELSE CHOOSE i \in dots : TRUE
        ip   == SubSeq(t, 1, dot - 1)
        fp   == SubSeq(t, dot + 1, Len(t))
        fp4  == SubSeq(fp, 1, IF Len(fp) < FracDigits THEN Len(fp) ELSE FracDigits)
    IN  IF /\ Cardinality(dots) <= 1
           /\ AllDigits(ip) /\ AllDigits(fp)
           /\ Len(ip) + Len(fp) > 0
        THEN [ok  |-> TRUE,
              val |-> Sign(Strip(s)) *
                      (DigitsValue(ip) * Scale
                       + DigitsValue(fp4) * Pow10(FracDigits - Len(fp4)))]
        ELSE [ok |-> FALSE, val |-> 0]

\* int(x) of a fixed-point value: truncation toward zero
Trunc(x) == IF x >= 0 THEN x \div Scale ELSE -((-x) \div Scale)

RECURSIVE NatToStr(_)
NatToStr(n) ==
    IF n < 10 THEN <<Digits[n + 1]>>
    ELSE NatToStr(n \div 10) \o <<Digits[(n % 10) + 1]>>

\* str(n) of an int
IntToStr(n) == IF n < 0 THEN <<"-">> \o NatToStr(-n) ELSE NatToStr(n)

---------------------------------------------------------------------------
(* JSON values of a field: what dict.get returns *)

JAbsent == [t |-> "absent", n |-> 0, s |-> <<>>]   \* key missing: None

JNull == [t |-> "null", n |-> 0, s |-> <<>>]       \* null: None

JInt(n) == [t |-> "int", n |-> n, s |-> <<>>]

JFloat(x) == [t |-> "float", n |-> x, s |-> <<>>]  \* n in fixed point

JStr(s) == [t |-> "str", n |-> 0, s |-> s]

IsNone(v) == v.t \in {"absent", "null"}

\* the truth value Python gives v in `v or 1` and `if v`
Truthy(v) ==
    CASE v.t \in {"absent", "null"} -> FALSE
      [] v.t \in {"int", "float"}   -> v.n # 0
      [] v.t = "str"                -> v.s # <<>>

\* str(v) for None, an int or a str
PyStr(v) ==
    CASE v.t \in {"absent", "null"} -> <<"N", "o", "n", "e">>
      [] v.t = "int"                -> IntToStr(v.n)
      [] v.t = "str"                -> v.s
      [] v.t = "float"              -> <<"f", "l", "o", "a", "t">>

---------------------------------------------------------------------------
(* scripts/flores_prisma/parser.py *)

\* _parse_int(v): int(str(v).strip()), else
\* int(float(str(v).replace(",", ".").strip())), else 0.  str() of a float
\* always has a "." or an exponent, so int() rejects it and float() gives
\* back the float.
_parse_int(v) ==
    IF v.t = "float" THEN Trunc(v.n)
    ELSE LET a == PyInt(Strip(PyStr(v)))
             b == PyFloat(Strip(Replace(PyStr(v), <<",">>, <<".">>)))
         IN  IF a.ok THEN a.val
             ELSE IF b.ok THEN Trunc(b.val)
             ELSE 0

\* _parse_float(v): float(str(v).replace(",", ".").strip()), else float(v),
\* else 0.0
_parse_float(v) ==
    IF v.t = "float" THEN v.n
    ELSE LET a == PyFloat(Strip(Replace(PyStr(v), <<",">>, <<".">>)))
             b == IF v.t = "str" THEN PyFloat(v.s) ELSE [ok |-> FALSE, val |-> 0]
         IN  IF a.ok THEN a.val
             ELSE IF b.ok THEN b.val
             ELSE 0

\* the default __init__ sets before it loads the file
InitialDefault == "Coloridas"

\* {r.get("match"): r.get("produto") for r in rules if r.get("match")}:
\* a later rule replaces an earlier one with the same key.
RulesToMap(rules) ==
    LET kept == {i \in 1..Len(rules) : Truthy(rules[i].match)}
        keys == {rules[i].match.s : i \in kept}
        last(k) == CHOOSE i \in kept :
                      /\ rules[i].match.s = k
                      /\ \A j \in kept : rules[j].match.s = k => j <= i
    IN  [k \in keys |-> rules[last(k)].produto]

\* _load_depara(path) as called by __init__: the pair (self.depara_map,
\* self._default) it leaves.  read_text / json.loads raise on a missing
\* or invalid file, js.get raises when the JSON is no object, iterating
\* `regras` raises when it is no list and r.get raises on an entry that
\* is no object; self._default has been assigned by then when the JSON is
\* an object.
_load_depara(file) ==
    IF file.kind # "object"
    THEN [map |-> <<>>, default |-> InitialDefault]
    ELSE LET d == IF file.default = None THEN "Coloridas" ELSE file.default
         IN  IF file.regras = "number"
                \/ \E i \in 1..Len(file.rules) : ~file.rules[i].isdict
             THEN [map |-> <<>>, default |-> d]
             ELSE [map |-> RulesToMap(file.rules), default |-> d]

\* _map_product looking the identifier up without trimming it
_map_product_NoStrip(map, default, nm_product) ==
    IF IsNone(nm_product) THEN None
    ELSE IF PyStr(nm_product) \in DOMAIN map THEN map[PyStr(nm_product)]
         ELSE default

\* _map_product(nm_product) on a mapper with the given map and default
_map_product(map, default, nm_product) ==
    IF IsNone(nm_product) THEN None
    ELSE LET nm == Strip(PyStr(nm_product))
         IN  IF nm \in DOMAIN map THEN map[nm] ELSE default

\* the body of the inner loop of parse for one product line p: the list
\* it appends (empty when the line is skipped)
ParseLine(map, default, p, name) ==
    LET product == _map_product(map, default, p.nm_product)
        stems_per_bunch == _parse_int(p.nu_stems_bunch)
        bunches == _parse_int(IF Truthy(p.nu_bunches) THEN p.nu_bunches ELSE JInt(1))
        stems == stems_per_bunch * bunches
        rate  == _parse_float(p.mny_rate_stem)
    IN  IF product = None THEN <<>>
        ELSE <<[product |-> product, stems |-> stems, rate_usd |-> rate,
                value_usd |-> stems * rate, source_file |-> name]>>

RECURSIVE ParseLines(_, _, _, _)
\* for p in box.get("products", [])
ParseLines(map, default, lines, name) ==
    IF lines = <<>> THEN <<>>
    ELSE ParseLine(map, default, Head(lines), name)
         \o ParseLines(map, default, Tail(lines), name)

RECURSIVE ParseBoxes(_, _, _, _)
\* for box in inv.get("boxes", [])
ParseBoxes(map, default, boxes, name) ==
    IF boxes = <<>> THEN <<>>
    ELSE ParseLines(map, default, Head(boxes), name)
         \o ParseBoxes(map, default, Tail(boxes), name)

\* parse(file_path): [raised, items].  json.loads raises on a document
\* that is no JSON; only invs[0] is read.
parse(map, default, doc) ==
    IF doc.kind = "invalid" THEN [raised |-> TRUE, items |-> <<>>]
    ELSE IF doc.invoices = <<>> THEN [raised |-> FALSE, items |-> <<>>]
    ELSE [raised |-> FALSE,
          items  |-> ParseBoxes(map, default, doc.invoices[1], doc.name)]

---------------------------------------------------------------------------
(* The parser on its own: a depara.json is drawn in PInit, a document at  *)
(* each parse                                                              *)

\* one entry of `regras`
Rule(m, p) == [isdict |-> TRUE, match |-> m, produto |-> p]

\* an entry of `regras` that is no object
BadEntry == [isdict |-> FALSE, match |-> JAbsent, produto |-> None]

EntrySamples ==
    { Rule(JStr(<<"X">>), "Freedom 50"),
      Rule(JStr(<<"X">>), "Freedom 60"),
      Rule(JStr(<<>>), "Freedom 50"),
      BadEntry }

MaxRules == 2

\* depara.json: missing, not JSON, a JSON array, or an object with an
\* optional "default" and `regras` absent, a number or a list
DeparaFiles ==
    {[kind |-> k, default |-> None, regras |-> "absent", rules |-> <<>>] :
        k \in {"missing", "invalid", "array"}}
    \cup
    {[kind |-> "object", default |-> d, regras |-> r, rules |-> <<>>] :
        d \in {None, "Freedom 60"}, r \in {"absent", "number"}}
    \cup
    {[kind |-> "object", default |-> d, regras |-> "list", rules |-> rs] :
        d \in {None, "Freedom 60"}, rs \in SeqsUpTo(EntrySamples, MaxRules)}

Line(id, spb, nb, rate) ==
    [nm_product |-> id, nu_stems_bunch |-> spb, nu_bunches |-> nb,
     mny_rate_stem |-> rate]

LineSamples ==
    { Line(JNull, JInt(10), JInt(1), JFloat(20000)),
      Line(JStr(<<"X">>), JInt(2), JAbsent, JStr(<<"0", ",", "1", "2", "5">>)),
      Line(JStr(<<" ", "X", " ">>), JStr(<<"3">>), JInt(2), JFloat(5000)),
      Line(JStr(<<"Z">>), JInt(2), JStr(<<"0">>), JInt(1)),
      Line(JStr(<<"X">>), JInt(2), JInt(0), JFloat(5000)),
      Line(JStr(<<"X">>), JInt(2), JStr(<<"x">>), JStr(<<"x">>)),
      Line(JStr(<<"X">>), JStr(<<"1", ",", "5">>), JNull, JFloat(1250)),
      Line(JStr(<<"Z">>), JInt(2), JStr(<<>>), JFloat(1250)) }

MaxLines == 2

Doc(k, invs) == [kind |-> k, name |-> "a.json", invoices |-> invs]

\* documents: not JSON; no invoice; one invoice of one box; one invoice of
\* two boxes of one line; two invoices
Documents ==
    {Doc("invalid", <<>>), Doc("json", <<>>)}
    \cup {Doc("json", << <<ls>> >>) : ls \in SeqsUpTo(LineSamples, MaxLines)}
    \cup {Doc("json", << << <<a>>, <<b>> >> >>) : a, b \in LineSamples}
    \cup {Doc("json", << << <<a>> >>, << <<b>> >> >>) : a, b \in LineSamples}

NoDoc == Doc("none", <<>>)

NoFile == [kind |-> "none", default |-> None, regras |-> "absent", rules |-> <<>>]

POff ==
    /\ depara_file = NoFile
    /\ self_default = None
    /\ depara_map = <<>>
    /\ document = NoDoc
    /\ parsed = <<>>
    /\ pphase = "off"

PInit ==
    /\ depara_file \in DeparaFiles
    /\ self_default = None
    /\ depara_map = <<>>
    /\ document = NoDoc
    /\ parsed = <<>>
    /\ pphase = "new"

\* FloresPrismaJSON(): __init__, which calls _load_depara
Construct ==
    /\ pphase = "new"
    /\ self_default' = _load_depara(depara_file).default
    /\ depara_map' = _load_depara(depara_file).map
    /\ pphase' = "constructed"
    /\ UNCHANGED <<depara_file, document, parsed>>
    /\ UNCHANGED <<fvars, avars>>

\* parser.parse(document)
Parse ==
    /\ pphase = "constructed"
    /\ \E doc \in Documents :
          /\ document' = doc
          /\ parsed' = parse(depara_map, self_default, doc).items
          /\ pphase' = IF parse(depara_map, self_default, doc).raised
                       THEN "raised" ELSE "parsed"
    /\ UNCHANGED <<depara_file, self_default, depara_map>>
    /\ UNCHANGED <<fvars, avars>>

---------------------------------------------------------------------------
(* finalize_table as a function: the arguments are drawn in FInit *)

MaxItems == 2

StemSamples == {0, 1, 2}

\* rate_usd of the items: 0.125
RateSamples == {1250}

\* a normalized line item as the parser emits it
Item(p, s, r) ==
    [product |-> p, stems |-> s, rate_usd |-> r, value_usd |-> s * r,
     source_file |-> "a.json"]

\* the product of an item handed to finalize_table may be None
ItemSamples ==
    {Item(p, s, r) : p \in Names \cup {None}, s \in StemSamples, r \in RateSamples}

MaxCatalog == 2

\* catalogs: sequences of distinct names
Catalogs == {c \in SeqsUpTo(Names, MaxCatalog) : IsInjective(c)}

\* exchange rates 0 and 0.5
CotacaoSamples == {0, 5000}

\* cost maps: absent, empty, or 2.5 for the first name
CostMaps ==
    {NoMap} \cup {SomeMap([p \in S |-> 25000]) : S \in {{}, {SortedNames[1]}}}

FInit ==
    /\ items \in SeqsUpTo(ItemSamples, MaxItems)
    /\ cotacao \in CotacaoSamples
    /\ produtos \in Catalogs
    /\ ops_costs_map \in CostMaps
    /\ out = <<>>
    /\ prev_out = <<>>
    /\ fphase = "args"
    /\ POff

\* the first call
CallFinalize ==
    /\ fphase = "args"
    /\ out' = finalize_table(items, cotacao, produtos, ops_costs_map)
    /\ prev_out' = out
    /\ fphase' = "called"
    /\ UNCHANGED <<items, cotacao, produtos, ops_costs_map>>
    /\ UNCHANGED <<pvars, avars>>

\* a second call that differs from the one before only in cotacao
CallWithOtherRate ==
    /\ fphase = "called"
    /\ \E c \in CotacaoSamples \ {cotacao} :
          /\ cotacao' = c
          /\ out' = finalize_table(items, c, produtos, ops_costs_map)
    /\ prev_out' = out
    /\ fphase' = "rate"
    /\ UNCHANGED <<items, produtos, ops_costs_map>>
    /\ UNCHANGED <<pvars, avars>>

FOff ==
    /\ items = <<>>
    /\ cotacao = 0
    /\ produtos = <<>>
    /\ ops_costs_map = NoMap
    /\ out = <<>>
    /\ prev_out = <<>>
    /\ fphase = "off"

---------------------------------------------------------------------------
(* app.py: formatting and parsing of display strings *)

\* n as exactly k digits
RECURSIVE Pad(_, _)
Pad(n, k) == IF k = 0 THEN <<>> ELSE Pad(n \div 10, k - 1) \o <<Digits[(n % 10) + 1]>>

RECURSIVE Grouped(_)
\* the integer part with "." between groups of three digits
Grouped(n) ==
    IF n < 1000 THEN NatToStr(n)
    ELSE Grouped(n \div 1000) \o <<".">> \o Pad(n % 1000, 3)

\* _fmt_num_br(value): f"{value:,.2f}" with "," and "." exchanged
_fmt_num_br(x) ==
    LET a     == IF x < 0 THEN -x ELSE x
        cents == RoundHalfEven(a, Scale \div 100)
    IN  (IF x < 0 THEN <<"-">> ELSE <<>>)
        \o Grouped(cents \div 100) \o <<",">> \o Pad(cents % 100, 2)

fmt_brl(x) == <<"R", "$", " ">> \o _fmt_num_br(x)

fmt_usd(x) == <<"$", " ">> \o _fmt_num_br(x)

\* parse_brl_to_float(text) of a cell value
parse_brl_to_float(text) ==
    CASE IsNone(text)     -> 0
      [] text.t = "int"   -> text.n * Scale
      [] text.t = "float" -> text.n
      [] text.t = "str"   ->
            LET s1 == Strip(text.s)
                s2 == Replace(Replace(s1, <<"R", "$">>, <<>>), <<"$">>, <<>>)
                s3 == Replace(s2, <<" ">>, <<>>)
                s4 == Replace(Replace(s3, <<".">>, <<>>), <<",">>, <<".">>)
                f  == PyFloat(s4)
            IN  IF f.ok THEN f.val ELSE 0

\* one row of format_display(df).  The cost cell is kept as a cell value:
\* it is the column the user edits and on_table_change reads back.
DisplayRow(r) ==
    [Produto  |-> r.Produto,
     Hastes   |-> r.Hastes,
     Subtotal |-> fmt_usd(r.Subtotal),
     Cotacao  |-> fmt_brl(r.Cotacao),
     Preco    |-> fmt_brl(r.Preco),
     Custos   |-> JStr(fmt_brl(r.Custos)),
     Total    |-> fmt_brl(r.Total)]

\* format_display(df); an empty frame is returned as it is
format_display(df) == [k \in 1..Len(df) |-> DisplayRow(df[k])]

\* empty_table()
empty_table(prods) ==
    format_display(
        [k \in 1..Len(prods) |->
            [Produto |-> prods[k], Hastes |-> 0, Subtotal |-> 0, Cotacao |-> 0,
             Preco |-> 0, Custos |-> 0, Total |-> 0]])

---------------------------------------------------------------------------
(* app.py: processar_arquivos *)

\* dir(module) of scripts.<fornecedor>.parser in sorted order, each name
\* with whether it is bound to a class.  typing.Any is a class from
\* Python 3.11 on.  "sem_classe" stands for a supplier package whose
\* parser module defines no class.
ModuleDir(fornecedor, anyIsType) ==
    IF fornecedor = "flores_prisma"
    THEN << [name |-> "Any", is_type |-> anyIsType],
            [name |-> "Dict", is_type |-> FALSE],
            [name |-> "FloresPrismaJSON", is_type |-> TRUE],
            [name |-> "List", is_type |-> FALSE],
            [name |-> "Optional", is_type |-> FALSE],
            [name |-> "Path", is_type |-> TRUE] >>
    ELSE <<>>

\* importlib.import_module succeeds
ModuleExists(fornecedor) == fornecedor \in {"flores_prisma", "sem_classe"}

\* the first attribute of the module that is a type, "" when there is none
ParserClass(fornecedor, anyIsType) ==
    LET d == ModuleDir(fornecedor, anyIsType)
        types == {i \in 1..Len(d) : d[i].is_type}
    IN  IF types = {} THEN ""
        ELSE d[CHOOSE i \in types : \A j \in types : i <= j].name

\* the exceptions the except clause of processar_arquivos catches
CaughtByExceptException(e) ==
    e \in {"ModuleNotFoundError", "TypeError", "JSONDecodeError"}

LogLine(kind, name) == [kind |-> kind, file |-> name]

NoEffect == [items |-> <<>>, logs |-> <<>>, calls |-> 0, exc |-> ""]

\* parser_class().parse(file.name): a new FloresPrismaJSON loads
\* depara.json, then parses
NewParserParse(m, doc) == parse(m.map, m.default, doc)

\* the try block for one pair, given the class found and what parse
\* returns: the items it adds, the log lines it appends, the parse calls
\* it makes and the exception it raises ("" for none)
TryBlock(pair, cls, res) ==
    IF ~ModuleExists(pair.fornecedor)
    THEN [NoEffect EXCEPT !.exc = "ModuleNotFoundError"]
    ELSE IF cls = ""
    THEN [NoEffect EXCEPT !.logs = <<LogLine("no_parser", pair.fornecedor)>>]
    ELSE IF cls # "FloresPrismaJSON"
    THEN [NoEffect EXCEPT !.exc = "TypeError"]
    ELSE IF res.raised
    THEN [NoEffect EXCEPT !.calls = 1, !.exc = "JSONDecodeError"]
    ELSE [items |-> res.items,
          logs  |-> <<LogLine("ok", pair.file.name)>>,
          calls |-> 1, exc |-> ""]

TryPair(pair, file, anyIsType) ==
    TryBlock(pair, ParserClass(pair.fornecedor, anyIsType),
             NewParserParse(_load_depara(file), pair.file))

\* a pair the loop skips: `if not file or not fornecedor: continue`
IsBlank(pair) == pair.file.kind = "none" \/ pair.fornecedor = None

\* Iteration ending the loop at the first document that fails
Iteration_StopsAtError(pair, t, rest) ==
    IF IsBlank(pair) THEN rest
    ELSE IF t.exc # ""
    THEN [items |-> <<>>, logs |-> <<LogLine("error", pair.file.name)>>,
          calls |-> t.calls, escaped |-> FALSE]
    ELSE [items   |-> t.items \o rest.items,
          logs    |-> t.logs \o rest.logs,
          calls   |-> t.calls + rest.calls,
          escaped |-> rest.escaped]

\* one iteration of the loop, t being what its try block did, followed by
\* the rest of the loop
Iteration(pair, t, rest) ==
    IF IsBlank(pair) THEN rest
    ELSE IF t.exc # "" /\ ~CaughtByExceptException(t.exc)
    THEN [items |-> <<>>, logs |-> <<>>, calls |-> t.calls, escaped |-> TRUE]
    ELSE [items   |-> t.items \o rest.items,
          logs    |-> (IF t.exc # ""
                       THEN <<LogLine("error", pair.file.name)>>
                       ELSE t.logs) \o rest.logs,
          calls   |-> t.calls + rest.calls,
          escaped |-> rest.escaped]

RECURSIVE ProcessPairs(_, _, _)
\* the loop of processar_arquivos: [items, logs, calls, escaped]
ProcessPairs(pairs, file, anyIsType) ==
    IF pairs = <<>>
    THEN [items |-> <<>>, logs |-> <<>>, calls |-> 0, escaped |-> FALSE]
    ELSE Iteration(Head(pairs), TryPair(Head(pairs), file, anyIsType),
                   ProcessPairs(Tail(pairs), file, anyIsType))

\* what processar_arquivos returns after the loop r
Returned(r, cot, prods) ==
    [table   |-> format_display(finalize_table(r.items, cot, prods, NoMap)),
     logs    |-> r.logs,
     items   |-> r.items,
     calls   |-> r.calls,
     escaped |-> r.escaped]

\* processar_arquivos(files, fornecedores, cotacao_dolar):
\* [table, logs, items, calls, escaped]
processar_arquivos(pairs, cot, prods, file, anyIsType) ==
    Returned(ProcessPairs(pairs, file, anyIsType), cot, prods)

\* run_processing with nothing ticked
NothingSelected(prods) ==
    [table   |-> empty_table(prods),
     logs    |-> <<LogLine("none_selected", "")>>,
     items   |-> <<>>,
     calls   |-> 0,
     escaped |-> FALSE]

RECURSIVE Ticked(_)
\* run_processing: the (file, fornecedor) pairs of the rows whose
\* "analisar" box is ticked
Ticked(rows) ==
    IF rows = <<>> THEN <<>>
    ELSE (IF Head(rows).check
          THEN <<[file |-> Head(rows).file, fornecedor |-> Head(rows).fornecedor]>>
          ELSE <<>>)
         \o Ticked(Tail(rows))

---------------------------------------------------------------------------
(* app.py: on_table_change *)

RECURSIVE OpsMapLoop_FirstWins(_, _)
\* OpsMapLoop keeping the first cost met for a product
OpsMapLoop_FirstWins(df, ops_map) ==
    IF df = <<>> THEN ops_map
    ELSE OpsMapLoop_FirstWins(Tail(df),
             ops_map
             @@ (Head(df).Produto :> parse_brl_to_float(Head(df).Custos)))

RECURSIVE OpsMapLoop(_, _)
\* for _, row in df.iterrows(): ops_map[prod] = parse_brl_to_float(cost)
OpsMapLoop(df, ops_map) ==
    IF df = <<>> THEN ops_map
    ELSE OpsMapLoop(Tail(df),
                    (Head(df).Produto :> parse_brl_to_float(Head(df).Custos))
                    @@ ops_map)

\* on_table_change(current_df, cotacao_val, items): the table it returns
on_table_change(current_df, cot, its, prods) ==
    LET ops_map == OpsMapLoop(current_df, <<>>)
    IN  format_display(finalize_table(its, cot, prods, SomeMap(ops_map)))

---------------------------------------------------------------------------
(* The application: uploads, the Processar button, edits of the table and *)
(* of the exchange rate                                                    *)

DocA ==
    [kind |-> "json", name |-> "a.json",
     invoices |-> << << << Line(JStr(<<" ", "X", " ">>), JInt(1), JInt(3), JFloat(1250)),
                           Line(JNull, JInt(10), JInt(1), JFloat(20000)),
                           Line(JStr(<<"Z">>), JInt(2), JAbsent, JFloat(1250)) >> >> >>]

DocB ==
    [kind |-> "json", name |-> "b.json",
     invoices |-> << << << Line(JStr(<<"Z">>), JInt(1), JInt(1),
                                JStr(<<"0", ",", "1", "2", "5">>)) >> >> >>]

DocBad == [kind |-> "invalid", name |-> "c.json", invoices |-> <<>>]

\* depara.json of the running application: "X" is "Freedom 50", the
\* default is "Coloridas"
AppDepara ==
    [kind |-> "object", default |-> None, regras |-> "list",
     rules |-> <<Rule(JStr(<<"X">>), "Freedom 50")>>]

UploadRow(f, s, c) == [file |-> f, fornecedor |-> s, check |-> c]

\* rows of the upload form: a document, the supplier chosen, the tick
UploadRows ==
    { UploadRow(DocA, "flores_prisma", TRUE),
      UploadRow(DocB, "flores_prisma", TRUE),
      UploadRow(DocBad, "flores_prisma", TRUE),
      UploadRow(DocA, "outro", TRUE),
      UploadRow(DocB, "sem_classe", TRUE),
      UploadRow(DocA, None, TRUE),
      UploadRow(DocB, "flores_prisma", FALSE) }

MaxFiles == 2

MaxRuns == 1

MaxEdits == 2

\* what the user types into a cost cell: 2.5, 0.125 with the currency
\* sign, 1000 with a thousands separator, and text that is no number
CostTexts ==
    { JStr(<<"2", ",", "5">>),
      JStr(<<"R", "$", " ", "0", ",", "1", "2", "5">>),
      JStr(<<"1", ".", "0", "0", "0">>),
      JStr(<<"x">>) }

\* the tables one edit of a cost cell or of a product cell away
EditedTables(df) ==
    {[df EXCEPT ![k].Custos = c] : k \in 1..Len(df), c \in CostTexts}
    \cup ({[df EXCEPT ![k].Produto = df[j].Produto] : k, j \in 1..Len(df)}
          \ {df})

\* the catalog carregar_produtos returns
AppCatalog == <<"Freedom 60", "Coloridas">>

\* the initial value of the Number cotacao: 5.00
InitialCotacao == 50000

AOff ==
    /\ any_is_type = FALSE
    /\ last_items = <<>>
    /\ out_table = <<>>
    /\ logs = <<>>
    /\ proc_files = <<>>
    /\ run_items = <<>>
    /\ run_calls = 0
    /\ parse_calls = 0
    /\ escaped = FALSE
    /\ seen_df = <<>>
    /\ runs = 0
    /\ edits = 0
    /\ aphase = "off"

\* app_ui(): the state of the components when the page is served
AInit ==
    /\ any_is_type \in BOOLEAN
    /\ last_items = <<>>
    /\ out_table = empty_table(AppCatalog)
    /\ logs = <<>>
    /\ proc_files = <<>>
    /\ run_items = <<>>
    /\ run_calls = 0
    /\ parse_calls = 0
    /\ escaped = FALSE
    /\ seen_df = <<>>
    /\ runs = 0
    /\ edits = 0
    /\ aphase = "idle"
    /\ items = <<>>
    /\ cotacao = InitialCotacao
    /\ produtos = AppCatalog
    /\ ops_costs_map = NoMap
    /\ out = <<>>
    /\ prev_out = <<>>
    /\ fphase = "off"
    /\ depara_file = AppDepara
    /\ self_default = None
    /\ depara_map = <<>>
    /\ document = NoDoc
    /\ parsed = <<>>
    /\ pphase = "off"

AFrame ==
    UNCHANGED <<items, produtos, ops_costs_map, out, prev_out, fphase, pvars,
                any_is_type>>

\* run_processing(files, ...) on the ticked pairs
run_processing(pairs, cot, prods, file, anyIsType) ==
    IF pairs = <<>> THEN NothingSelected(prods)
    ELSE processar_arquivos(pairs, cot, prods, file, anyIsType)

\* the outputs of process_btn.click written to the components
StoreRun(pairs, r) ==
    /\ out_table' = r.table
    /\ logs' = r.logs
    /\ last_items' = r.items
    /\ proc_files' = pairs
    /\ run_items' = r.items
    /\ parse_calls' = parse_calls + r.calls
    /\ run_calls' = parse_calls + r.calls
    /\ escaped' = r.escaped

\* process_btn.click: run_processing, which calls processar_arquivos
RunProcessing ==
    /\ aphase # "off"
    /\ runs < MaxRuns
    /\ \E rows \in SeqsUpTo(UploadRows, MaxFiles) :
          StoreRun(Ticked(rows),
                   run_processing(Ticked(rows), cotacao, produtos, depara_file,
                                  any_is_type))
    /\ runs' = runs + 1
    /\ aphase' = "processed"
    /\ UNCHANGED <<cotacao, seen_df, edits>>
    /\ AFrame

\* out_table.change after the user edited a cell
EditTable ==
    /\ aphase # "off"
    /\ edits < MaxEdits
    /\ \E df \in EditedTables(out_table) :
          /\ seen_df' = df
          /\ out_table' = on_table_change(df, cotacao, last_items, produtos)
    /\ edits' = edits + 1
    /\ aphase' = "recomputed"
    /\ UNCHANGED <<cotacao, last_items, logs, proc_files, run_items, run_calls,
                   parse_calls, escaped, runs>>
    /\ AFrame

\* out_table.change after a handler wrote the table: current_df is the
\* table as displayed
TableChange ==
    /\ aphase \in {"processed", "recomputed"}
    /\ edits < MaxEdits
    /\ seen_df' = out_table
    /\ out_table' = on_table_change(out_table, cotacao, last_items, produtos)
    /\ edits' = edits + 1
    /\ aphase' = "recomputed"
    /\ UNCHANGED <<cotacao, last_items, logs, proc_files, run_items, run_calls,
                   parse_calls, escaped, runs>>
    /\ AFrame

\* cotacao.change: the user set another exchange rate
CotacaoChange ==
    /\ aphase # "off"
    /\ edits < MaxEdits
    /\ \E c \in CotacaoSamples \ {cotacao} :
          /\ cotacao' = c
          /\ out_table' = on_table_change(out_table, c, last_items, produtos)
    /\ seen_df' = out_table
    /\ edits' = edits + 1
    /\ aphase' = "recomputed"
    /\ UNCHANGED <<last_items, logs, proc_files, run_items, run_calls,
                   parse_calls, escaped, runs>>
    /\ AFrame

---------------------------------------------------------------------------
(* Specification: the three entry points above *)

Init == (FInit /\ AOff) \/ (FOff /\ PInit /\ AOff) \/ AInit

Next ==
    \/ CallFinalize
    \/ CallWithOtherRate
    \/ Construct
    \/ Parse
    \/ RunProcessing
    \/ EditTable
    \/ TableChange
    \/ CotacaoChange

Spec == Init /\ [][Next]_vars

\* finalize_table alone, called on every input of the bounded sets
FinalizeInit == FInit /\ AOff

FinalizeNext == CallFinalize \/ CallWithOtherRate

FinalizeSpec == FinalizeInit /\ [][FinalizeNext]_vars

\* the Flores Prisma mapper alone: construction, then parse
ParserInit == FOff /\ PInit /\ AOff

ParserNext == Construct \/ Parse

ParserSpec == ParserInit /\ [][ParserNext]_vars

---------------------------------------------------------------------------
(* Claims about finalize_table *)

RowsOf(p) == {k \in 1..Len(out) : out[k].Produto = p}

NoItemMapsTo(p) == \A i \in 1..Len(items) : items[i].product # p

InCatalog(p) == \E i \in 1..Len(produtos) : produtos[i] = p

CatalogIndex(p) == CHOOSE i \in 1..Len(produtos) : produtos[i] = p

RECURSIVE SumField(_, _)
SumField(s, field) ==
    IF s = <<>> THEN 0 ELSE Head(s)[field] + SumField(Tail(s), field)

\* C1: the table finalize_table returns has exactly one row for each
\* product of the catalog, and a catalog product no item maps to has
\* total_stems = 0 and subtotal_source_currency = 0.0.
C1_CatalogCoverage ==
    fphase \in {"called", "rate"} =>
        \A i \in 1..Len(produtos) :
            /\ Cardinality(RowsOf(produtos[i])) = 1
            /\ NoItemMapsTo(produtos[i]) =>
                  \A k \in RowsOf(produtos[i]) :
                      out[k].Hastes = 0 /\ out[k].Subtotal = 0

\* C1 witness: a call with items, one catalog product with no item and
\* one with items; and a call with the empty item list.
C1_Witness ==
    /\ fphase = "called"
    /\ items # <<>>
    /\ \E i \in 1..Len(produtos) : NoItemMapsTo(produtos[i])
    /\ \E i \in 1..Len(produtos) : ~NoItemMapsTo(produtos[i])

\* C3: the rows of catalog products appear in strictly increasing catalog
\* index and every row of a product outside the catalog comes after all
\* catalog rows, whatever the order of the items.
C3_CatalogOrder ==
    fphase \in {"called", "rate"} =>
        \A i, j \in 1..Len(out) :
            i < j =>
                /\ (InCatalog(out[i].Produto) /\ InCatalog(out[j].Produto))
                      => CatalogIndex(out[i].Produto) < CatalogIndex(out[j].Produto)
                /\ ~(~InCatalog(out[i].Produto) /\ InCatalog(out[j].Produto))

\* C3 witness: the catalog is in the reverse of the grouping's order and
\* the first item's product is outside the catalog and sorts before both.
C3_Witness ==
    /\ fphase = "called"
    /\ Len(produtos) = 2
    /\ KeyRank(produtos[1]) > KeyRank(produtos[2])
    /\ Len(items) = 2
    /\ ~InCatalog(items[1].product)
    /\ KeyRank(items[1].product) < KeyRank(produtos[2])
    /\ items[2].product = produtos[2]
    /\ Len(out) = 3

\* the cost map's value for p, 0.0 when the map is absent or has no entry
CostOf(p) ==
    IF ops_costs_map # NoMap /\ p \in DOMAIN ops_costs_map[1]
    THEN ops_costs_map[1][p] ELSE 0

\* t is (num / den) rounded to the nearest 1/10000
IsNearest(t, num, den) ==
    /\ 2 * (t * den - num) <= den
    /\ 2 * (num - t * den) <= den

\* C4: every row's operational_cost is the cost map's value for its
\* product (0.0 when absent), total_per_stem is (converted_price +
\* operational_cost) / total_stems rounded to 4 decimals when
\* total_stems > 0 and 0.0 when total_stems = 0; 100 stems, price 250.00
\* and cost 25.0 give 2.7500.
C4_TotalPerStem ==
    /\ TotalPerStem(250 * Scale, 25 * Scale, 100) = 27500
    /\ TotalPerStem(250 * Scale, 25 * Scale, 0) = 0
    /\ fphase \in {"called", "rate"} =>
          \A k \in 1..Len(out) :
              /\ out[k].Custos = CostOf(out[k].Produto)
              /\ out[k].Hastes = 0 => out[k].Total = 0
              /\ out[k].Hastes > 0 =>
                    IsNearest(out[k].Total, out[k].Preco + out[k].Custos,
                              out[k].Hastes)

\* C4 witness: a row with no stems and a cost, and a row whose quotient
\* is not a multiple of 1/10000.
C4_Witness ==
    /\ fphase = "called"
    /\ \E k \in 1..Len(out) : out[k].Hastes = 0 /\ out[k].Custos > 0
    /\ \E k \in 1..Len(out) :
          /\ out[k].Hastes > 0
          /\ out[k].Total * out[k].Hastes # out[k].Preco + out[k].Custos

\* C5: two consolidations that differ only in exchange_rate have the same
\* products in the same order, with equal total_stems,
\* subtotal_source_currency and operational_cost in every row.
C5_RateFrame ==
    fphase = "rate" =>
        /\ Len(out) = Len(prev_out)
        /\ \A k \in 1..Len(out) :
              /\ out[k].Produto = prev_out[k].Produto
              /\ out[k].Hastes = prev_out[k].Hastes
              /\ out[k].Subtotal = prev_out[k].Subtotal
              /\ out[k].Custos = prev_out[k].Custos

\* C5 witness: the second call changed a converted_price and a
\* total_per_stem.
C5_Witness ==
    /\ fphase = "rate"
    /\ \E k \in 1..Len(out) :
          /\ out[k].Preco # prev_out[k].Preco
          /\ out[k].Total # prev_out[k].Total
          /\ out[k].Cotacao # prev_out[k].Cotacao

---------------------------------------------------------------------------
(* Claims about the parser *)

RECURSIVE Flatten(_)
\* the concatenation of a sequence of sequences
Flatten(ss) == IF ss = <<>> THEN <<>> ELSE Head(ss) \o Flatten(Tail(ss))

HasIdentifier(line) == ~IsNone(line.nm_product)

\* the product lines of the document's invoice whose raw identifier is
\* not null, in document order
IdentifiedLines(doc) ==
    IF doc.invoices = <<>> THEN <<>>
    ELSE SelectSeq(Flatten(doc.invoices[1]), HasIdentifier)

\* the canonical product of the rule whose key is the trimmed identifier,
\* or the default when there is none
RuleProduct(id) ==
    IF \E k \in DOMAIN depara_map : k = Strip(id.s)
    THEN depara_map[CHOOSE k \in DOMAIN depara_map : k = Strip(id.s)]
    ELSE self_default

\* C8: parse emits, in document order, exactly one item for every product
\* line whose raw identifier is non-null and none for a line whose
\* identifier is null; the item's product is that of the rule whose key
\* equals the trimmed identifier, or default_product when no rule matches.
C8_ParseEmits ==
    pphase = "parsed" =>
        LET ls == IdentifiedLines(document)
        IN  /\ Len(parsed) = Len(ls)
            /\ \A k \in 1..Len(ls) :
                  /\ parsed[k].product = RuleProduct(ls[k].nm_product)
                  /\ parsed[k].product # None

\* C8 witness: a line with a null identifier before a line whose
\* identifier matches a rule only once trimmed.
C8_Witness ==
    /\ pphase = "parsed"
    /\ document.invoices # <<>>
    /\ Len(Flatten(document.invoices[1])) = 2
    /\ IsNone(Flatten(document.invoices[1])[1].nm_product)
    /\ Flatten(document.invoices[1])[2].nm_product = JStr(<<" ", "X", " ">>)
    /\ <<"X">> \in DOMAIN depara_map
    /\ depara_map[<<"X">>] # self_default
    /\ Len(parsed) = 1
    /\ parsed[1].product = depara_map[<<"X">>]

\* loading fails: the file is missing, is no JSON object, or `regras` is
\* no list of objects
LoadFails(file) ==
    \/ file.kind \in {"missing", "invalid", "array"}
    \/ /\ file.kind = "object"
       /\ \/ file.regras = "number"
          \/ \E i \in 1..Len(file.rules) : ~file.rules[i].isdict

\* C9: whenever loading the rule set fails, the constructed mapper has an
\* empty rule set and default_product = "Coloridas", so every non-null
\* identifier resolves to "Coloridas".
C9_LoadFallback ==
    (pphase \in {"constructed", "parsed", "raised"} /\ LoadFails(depara_file)) =>
        /\ depara_map = <<>>
        /\ self_default = "Coloridas"
        /\ \A id \in {JStr(<<"X">>), JStr(<<"Z">>)} :
              _map_product(depara_map, self_default, id) = "Coloridas"

\* the bunch count the claim names: 1 when the field is absent, the
\* parsed field otherwise
ClaimedBunches(line) ==
    IF IsNone(line.nu_bunches) THEN 1 ELSE _parse_int(line.nu_bunches)

\* C10: every emitted item has stems = parsed stems_per_bunch x parsed
\* bunch_count, the bunch count being replaced by 1 if and only if the
\* field is absent; a present bunch count of 0 gives stems = 0.
C10_Stems ==
    pphase = "parsed" =>
        LET ls == IdentifiedLines(document)
        IN  \A k \in 1..Len(parsed) :
                k <= Len(ls) =>
                    parsed[k].stems =
                        _parse_int(ls[k].nu_stems_bunch) * ClaimedBunches(ls[k])

---------------------------------------------------------------------------
(* Claims about the application *)

\* the pair's document is parsed: the pair is not blank, its supplier's
\* module yields the Flores Prisma parser and the document is JSON
ParsesOk(pair) ==
    /\ ~IsBlank(pair)
    /\ pair.fornecedor = "flores_prisma"
    /\ ~any_is_type
    /\ pair.file.kind = "json"

\* the items of the pair's document, none when it is not parsed
ItemsOfPair(pair) ==
    IF ParsesOk(pair)
    THEN parse(_load_depara(depara_file).map, _load_depara(depara_file).default,
               pair.file).items
    ELSE <<>>

NotBlank(pair) == ~IsBlank(pair)

\* C7: in processar_arquivos a document whose parser cannot be resolved or
\* whose parse raises contributes no items and is reported by one log
\* line, every other document is still parsed: the accumulated items are
\* the concatenation, in sequence order, of the items of the documents
\* that parsed, and the call never raises.
C7_Isolation ==
    (runs > 0 /\ proc_files # <<>>) =>
        LET nb == SelectSeq(proc_files, NotBlank)
        IN  /\ ~escaped
            /\ last_items =
                  Flatten([i \in 1..Len(proc_files) |-> ItemsOfPair(proc_files[i])])
            /\ Len(logs) = Len(nb)
            /\ \A k \in 1..Len(nb) :
                  /\ logs[k].kind = "ok" <=> ParsesOk(nb[k])
                  /\ logs[k].kind \in {"ok", "error", "no_parser"}

\* C7 witness: the first document fails, the second is parsed and gives
\* items.
C7_Witness ==
    /\ aphase = "processed"
    /\ Len(proc_files) = 2
    /\ Len(logs) = 2
    /\ logs[1].kind = "error"
    /\ logs[2].kind = "ok"
    /\ last_items # <<>>

RECURSIVE LinesStems(_)
\* the stems of a sequence of product lines
LinesStems(ls) ==
    IF ls = <<>> THEN 0
    ELSE _parse_int(Head(ls).nu_stems_bunch)
         * _parse_int(IF Truthy(Head(ls).nu_bunches)
                      THEN Head(ls).nu_bunches ELSE JInt(1))
         + LinesStems(Tail(ls))

RECURSIVE PairsStems(_)
\* the stems of the lines with an identifier in the documents parsed
PairsStems(pairs) ==
    IF pairs = <<>> THEN 0
    ELSE (IF ParsesOk(Head(pairs))
          THEN LinesStems(IdentifiedLines(Head(pairs).file)) ELSE 0)
         + PairsStems(Tail(pairs))

\* C2: when every item has a non-null product, in the catalog or not, the
\* sum of total_stems over the rows finalize_table returns is the sum of
\* stems over the items; end to end, the rows' stems are those of the
\* document lines that have an identifier, so a line whose raw identifier
\* is null adds to no row.
C2_StemsConserved ==
    /\ (fphase \in {"called", "rate"}
        /\ \A i \in 1..Len(items) : items[i].product # None)
           => SumField(out, "Hastes") = SumField(items, "stems")
    /\ (runs > 0 /\ ~escaped)
           => /\ SumField(out_table, "Hastes") = SumField(last_items, "stems")
              /\ SumField(out_table, "Hastes") = PairsStems(proc_files)

\* C2 witness: a processed document with a null-identifier line that
\* carries stems and a line whose product is outside the catalog.
C2_Witness ==
    /\ aphase = "processed"
    /\ \E i \in 1..Len(proc_files) :
          /\ ParsesOk(proc_files[i])
          /\ \E l \in Range(Flatten(proc_files[i].file.invoices[1])) :
                IsNone(l.nm_product) /\ _parse_int(l.nu_stems_bunch) > 0
    /\ \E i \in 1..Len(last_items) :
          ~InCatalog(last_items[i].product) /\ last_items[i].stems > 0
    /\ SumField(out_table, "Hastes") > 0

\* text that spells no number
NoNumber(cell) ==
    /\ cell.t = "str"
    /\ \E i \in 1..Len(cell.s) :
          ~IsDigit(cell.s[i]) /\ cell.s[i] \notin {"R", "$", " ", ".", ",", "-"}

\* the cost map of a displayed table: per product the cost of its last
\* row, text that is no number counting as 0.0
TableCostMap(df) ==
    [p \in {df[k].Produto : k \in 1..Len(df)} |->
        LET last == CHOOSE k \in 1..Len(df) :
                       /\ df[k].Produto = p
                       /\ \A j \in 1..Len(df) : df[j].Produto = p => j <= k
        IN  IF NoNumber(df[last].Custos) THEN 0
            ELSE parse_brl_to_float(df[last].Custos)]

\* C6: after a processing run stored its item set, rate changes and table
\* edits leave last_items equal to what the run produced and invoke no
\* parser, and each recompute's table is the consolidation of that item
\* set with the current rate and the cost map read from the table on
\* display (last row wins per product, unparseable text counts as 0.0).
C6_RecomputeFrozenItems ==
    (aphase = "recomputed" /\ runs > 0) =>
        /\ last_items = run_items
        /\ parse_calls = run_calls
        /\ out_table =
              format_display(
                  finalize_table(run_items, cotacao, produtos,
                                 SomeMap(TableCostMap(seen_df))))

\* C6 witness: a recompute over a stored item set whose table on display
\* held two rows of one product with different costs; the product has
\* stems, so the cost chosen shows in its total.
C6_Witness ==
    /\ aphase = "recomputed"
    /\ runs > 0
    /\ run_items # <<>>
    /\ \E j, k \in 1..Len(seen_df) :
          /\ j < k
          /\ seen_df[j].Produto = seen_df[k].Produto
          /\ parse_brl_to_float(seen_df[j].Custos)
                # parse_brl_to_float(seen_df[k].Custos)
          /\ \E r \in 1..Len(out_table) :
                /\ out_table[r].Produto = seen_df[k].Produto
                /\ out_table[r].Hastes > 0

\* the cost the map read from the table df gives product p, 0.0 when df
\* has no row for p
CostFrom(df, p) ==
    LET m == OpsMapLoop(df, <<>>)
    IN  IF p \in DOMAIN m THEN m[p] ELSE 0

\* C11: with the item set and the exchange rate held fixed, feeding the
\* table a recompute displayed back into on_table_change returns that same
\* table, and the cost map extracted from the displayed table equals the
\* cost map that produced it, whatever cost the user entered.
C11_RecomputeFixpoint ==
    aphase = "recomputed" =>
        /\ on_table_change(out_table, cotacao, last_items, produtos) = out_table
        /\ \A k \in 1..Len(out_table) :
              CostFrom(out_table, out_table[k].Produto)
                 = CostFrom(seen_df, out_table[k].Produto)

---------------------------------------------------------------------------
(* Claims about rounding *)

\* Nearest integer to n / d (n >= 0, d > 0), a value exactly halfway going
\* away from zero.
RoundHalfUp(n, d) == IF 2 * (n % d) >= d THEN (n \div d) + 1 ELSE n \div d

\* C12: each derived field of a final row is rounded once and half-up:
\* subtotal_source_currency is the sum of value_usd rounded half-up to 2
\* decimals, converted_price is that subtotal x exchange_rate rounded
\* half-up to 2 decimals, total_per_stem is rounded half-up to 4 decimals;
\* a subtotal of 0.125 gives 0.13.
C12_HalfUp ==
    fphase \in {"called", "rate"} =>
        \A k \in 1..Len(out) :
            /\ out[k].Subtotal =
                  RoundHalfUp(SumOver(items, out[k].Produto, "value_usd"),
                              Scale \div 100) * (Scale \div 100)
            /\ out[k].Preco =
                  RoundHalfUp(out[k].Subtotal * cotacao,
                              Scale * (Scale \div 100)) * (Scale \div 100)
            /\ out[k].Hastes > 0 =>
                  out[k].Total =
                     RoundHalfUp(out[k].Preco + out[k].Custos, out[k].Hastes)

=============================================================================
